---- MODULE Spec2Model ----
(***************************************************************************)
(* A model of PouchAdapter (packages/feathers-pouchdb/src/PouchAdapter.ts): *)
(* the asynchronous setup sequence (store open, encryption resolution,     *)
(* replication start) and the CRUD facade built on the revision-checked    *)
(* document store.  Every await of the source is a step boundary: an       *)
(* action runs the code from one await to the next.                        *)
(***************************************************************************)
EXTENDS Integers, Sequences, FiniteSets, TLC

VARIABLES
    options,        \* this.options (fixed at construction)
    out,            \* this.out is assigned (setup, line 89)
    client,         \* this.client: "unset" or "open" (line 103)
    feed,           \* the change feed of this.client is subscribed (105-118)
    setupPc,        \* where setup() is: new, awaitKey, setPassword, loadEncrypted, resolved, rejected
    setupErr,       \* the error setup() rejected with
    keyPromise,     \* the promise encryptionReady() returned
    listening,      \* app.on('decrypt', ...) is registered (line 204)
    decrypts,       \* how many 'decrypt' events the host has emitted
    heard,          \* how many times the 'decrypt' listener has run (line 205)
    encrypted,      \* this.client._encrypted exists (setPassword resolved)
    loads,          \* how many times loadEncrypted() resolved
    replicateFrom,  \* the local replicateFrom of setup(): unset, client, encrypted
    remote,         \* this.remote: "unset" or "open" (line 168)
    syncs,          \* the sync sessions started: a sequence of their source handles
    emitted,        \* the last sync.* signal the adapter emitted, or "none"
    db,             \* the documents of the store behind this.client
    task,           \* the CRUD calls in flight: one slot per caller, and per
                    \* caller one slot per item of a fan-out (Promise.all)
    budget          \* how many more CRUD calls the callers make

vars == <<options, out, client, feed, setupPc, setupErr, keyPromise, listening,
          decrypts, heard, encrypted, loads, replicateFrom, remote, syncs, emitted, db, task,
          budget>>

setupVars == <<options, out, client, feed, setupPc, setupErr, keyPromise, listening,
               decrypts, heard, encrypted, loads, replicateFrom, remote, syncs, emitted>>

-----------------------------------------------------------------------------
(* Bounds of the model *)

NumTasks == 2
MaxOps == 2
MaxDecrypts == 2
MaxLimit == 3

Tasks == 1..NumTasks

-----------------------------------------------------------------------------
(* Documents.  An id is a string, modelled as its sequence of characters;    *)
(* the empty sequence stands for a falsy id (null, undefined, '').          *)

NullId == <<>>
IdA == <<"a">>
IdB == <<"b">>
IdSys == <<"_", "d">>
Ids == {IdSys, IdA, IdB}
IdOrder == <<IdSys, IdA, IdB>>

\* the widest fan-out: a find returns each id at most once
MaxItems == Len(IdOrder)

\* the slots of task: the callers first, then the items of each caller's
\* fan-out, MaxItems per caller
Slots == 1..(NumTasks * (1 + MaxItems))
Sub(p, k) == NumTasks + (p - 1) * MaxItems + k
IsSub(s) == s > NumTasks
Parent(s) == ((s - NumTasks - 1) \div MaxItems) + 1

Fields == {"name", "tag"}
Absent == "absent"
Vals == {"a", "b"}
FieldMaps == [Fields -> Vals \cup {Absent}]
NoFields == [f \in Fields |-> Absent]

\* a document as the store returns it: _id, _rev and its fields
Doc(i, r, fs) == [id |-> i, rev |-> r, fields |-> fs]
NoDoc == Doc(NullId, 0, NoFields)

\* doc._id.startsWith('_')
startsWithUnderscore(i) == Len(i) > 0 /\ i[1] = "_"

filterDocs_keepAll(docs) == docs

filterDocs(docs) == SelectSeq(docs, LAMBDA d : ~startsWithUnderscore(d.id))

-----------------------------------------------------------------------------
(* The document store (PouchDB) as the adapter uses it.  Per id the store   *)
(* keeps the generation of the winning revision (0: the id never existed),  *)
(* whether that revision is a tombstone, and the fields.                    *)

NoEntry == [rev |-> 0, deleted |-> FALSE, fields |-> NoFields]

Live(d, i) == i \in Ids /\ d[i].rev > 0 /\ ~d[i].deleted

\* client.get(id): the document, or a rejection (found = FALSE)
StoreGet(d, i) ==
    IF Live(d, i) THEN [found |-> TRUE, doc |-> Doc(i, d[i].rev, d[i].fields)]
    ELSE [found |-> FALSE, doc |-> NoDoc]

\* the revision check of a write of `data` (its _id, its _rev or 0 for none):
\* "ok", "conflict" (409) or "missing_id" (412)
WriteCheck_noRevCheck(d, data) ==
    IF data.id \notin Ids THEN "missing_id" ELSE "ok"

WriteCheck(d, data) ==
    IF data.id \notin Ids THEN "missing_id"
    ELSE IF d[data.id].rev = 0 THEN (IF data.rev = 0 THEN "ok" ELSE "conflict")
    ELSE IF d[data.id].deleted
         THEN (IF data.rev \in {0, d[data.id].rev} THEN "ok" ELSE "conflict")
    ELSE IF data.rev = d[data.id].rev THEN "ok" ELSE "conflict"

StorePut_sameRev(d, data) ==
    [d EXCEPT ![data.id] = [rev |-> IF d[data.id].rev = 0 THEN 1 ELSE d[data.id].rev,
                            deleted |-> FALSE, fields |-> data.fields]]

\* client.put(data): the store after a successful write (a new revision)
StorePut(d, data) ==
    [d EXCEPT ![data.id] = [rev |-> d[data.id].rev + 1, deleted |-> FALSE,
                            fields |-> data.fields]]

\* client.remove(doc): a tombstone revision
StoreRemove(d, doc) ==
    [d EXCEPT ![doc.id] = [rev |-> d[doc.id].rev + 1, deleted |-> TRUE,
                           fields |-> NoFields]]

\* the selector of a find: a field constrained to a value, or unconstrained
Matches(fs, selector) ==
    \A f \in Fields : selector[f] # Absent => fs[f] = selector[f]

RECURSIVE Collect(_, _, _)
Collect(d, selector, k) ==
    IF k > Len(IdOrder) THEN <<>>
    ELSE LET i == IdOrder[k]
             rest == Collect(d, selector, k + 1)
         IN IF Live(d, i) /\ Matches(d[i].fields, selector)
            THEN <<Doc(i, d[i].rev, d[i].fields)>> \o rest
            ELSE rest

\* limit and skip of a find request; -1 stands for undefined
Window(s, limit, skip) ==
    LET from == (IF skip > 0 THEN skip ELSE 0) + 1
        upto == IF limit < 0 THEN Len(s)
                ELSE IF from - 1 + limit < Len(s) THEN from - 1 + limit ELSE Len(s)
    IN SubSeq(s, from, upto)

\* client.find(options): res.docs
StoreFind(d, req) == Window(Collect(d, req.selector, 1), req.limit, req.skip)

\* client.createIndex(...) stores a design document, once
CreateIndex(d) ==
    IF d[IdSys].rev = 0
    THEN [d EXCEPT ![IdSys] = [rev |-> 1, deleted |-> FALSE, fields |-> NoFields]]
    ELSE d

-----------------------------------------------------------------------------
(* Options.  encrypt is false, true, 'local', 'remote' or 'full' (written   *)
(* as strings); encryptionKey is a string, '' when none is configured.      *)

Undef == -1
NoKey == ""
Modes == {"false", "true", "local", "remote", "full"}

\* JavaScript truthiness of options.encrypt and of a key
EncryptOn(o) == o.encrypt # "false"
Truthy(k) == k # NoKey

\* options.paginate: {} by default (constructor, line 49), or {default, max}
Policy(dflt, mx) == [kind |-> "policy", default |-> dflt, max |-> mx]
EmptyPolicy == Policy(Undef, Undef)
PaginateFalse == [kind |-> "false", default |-> Undef, max |-> Undef]

\* options.multi: false by default (line 50), or the methods allowed to take
\* several documents
NoMulti == {}
AllMulti == {"create", "put", "patch", "remove"}

Options(e, k, r, pg, m) ==
    [encrypt |-> e, encryptionKey |-> k, replicate |-> r, paginate |-> pg, multi |-> m]

-----------------------------------------------------------------------------
(* setup(app, servicePath) *)

Pending == [state |-> "pending", key |-> NoKey]
Resolved(k) == [state |-> "resolved", key |-> k]
Rejected == [state |-> "rejected", key |-> NoKey]
NoPromise == [state |-> "none", key |-> NoKey]

\* encryptionReady(app): the promise it returns, and whether it subscribed
encryptionReady_noWait(o) ==
    [promise |-> Resolved(o.encryptionKey), listen |-> FALSE]

encryptionReady_alwaysWait(o) == [promise |-> Pending, listen |-> TRUE]

encryptionReady(o) ==
    IF ~EncryptOn(o) THEN [promise |-> Resolved(NoKey), listen |-> FALSE]
    ELSE IF Truthy(o.encryptionKey)
         THEN [promise |-> Resolved(o.encryptionKey), listen |-> FALSE]
    ELSE [promise |-> Pending, listen |-> TRUE]

\* lines 149: the encrypted content is loaded for e2e encryption only
LoadsEncrypted(o) == o.encrypt = "true" \/ o.encrypt = "remote"

StartReplication_always(from) ==
    /\ replicateFrom' = from
    /\ remote' = "open" /\ syncs' = Append(syncs, from)
    /\ setupPc' = "resolved"

\* lines 165-190: start replication from `from` when options.replicate is set
StartReplication(from) ==
    /\ replicateFrom' = from
    /\ IF options.replicate
       THEN remote' = "open" /\ syncs' = Append(syncs, from)
       ELSE UNCHANGED <<remote, syncs>>
    /\ setupPc' = "resolved"

\* lines 129-133, 142-146, 153-157: wrap the cause and throw
SetupThrow ==
    /\ setupPc' = "rejected"
    /\ setupErr' = "EncryptionError"
    /\ UNCHANGED <<replicateFrom, remote, syncs>>

\* lines 88-128: from the call to the first await (or to the end, when
\* encryption is off: then setup() has no await at all)
SetupStart ==
    /\ setupPc = "new"
    /\ out' = TRUE
    /\ client' = "open"
    /\ feed' = TRUE
    /\ db' = CreateIndex(db)
    /\ IF EncryptOn(options)
       THEN LET r == encryptionReady(options)
            IN /\ keyPromise' = r.promise
               /\ listening' = r.listen
               /\ replicateFrom' = "client"
               /\ setupPc' = "awaitKey"
               /\ UNCHANGED <<remote, syncs>>
       ELSE /\ StartReplication("client")
            /\ UNCHANGED <<keyPromise, listening>>
    /\ UNCHANGED <<options, setupErr, decrypts, heard, encrypted, loads, emitted, task,
                   budget>>

DecryptEvent_settlesAgain(k) ==
    /\ decrypts < MaxDecrypts
    /\ decrypts' = decrypts + 1
    /\ heard' = (IF listening THEN heard + 1 ELSE heard)
    /\ IF listening
       THEN keyPromise' = (IF Truthy(k) THEN Resolved(k) ELSE Rejected)
       ELSE UNCHANGED keyPromise
    /\ UNCHANGED <<options, out, client, feed, setupPc, setupErr, listening,
                   encrypted, loads, replicateFrom, remote, syncs, emitted, db, task,
                   budget>>

\* lines 204-211: the host emits 'decrypt' with a key or a falsy value; only
\* a registered listener hears it, and a settled promise stays settled
DecryptEvent(k) ==
    /\ decrypts < MaxDecrypts
    /\ decrypts' = decrypts + 1
    /\ heard' = (IF listening THEN heard + 1 ELSE heard)
    /\ IF listening /\ keyPromise.state = "pending"
       THEN keyPromise' = (IF Truthy(k) THEN Resolved(k) ELSE Rejected)
       ELSE UNCHANGED keyPromise
    /\ UNCHANGED <<options, out, client, feed, setupPc, setupErr, listening,
                   encrypted, loads, replicateFrom, remote, syncs, emitted, db, task,
                   budget>>

\* lines 128-141: the await of encryptionReady() settles
SetupKeyResumed ==
    /\ setupPc = "awaitKey"
    /\ keyPromise.state \in {"resolved", "rejected"}
    /\ IF keyPromise.state = "rejected"
       THEN SetupThrow
       ELSE IF Truthy(keyPromise.key) /\ EncryptOn(options)
            THEN /\ setupPc' = "setPassword"
                 /\ UNCHANGED <<setupErr, replicateFrom, remote, syncs>>
            ELSE /\ StartReplication(replicateFrom)
                 /\ UNCHANGED setupErr
    /\ UNCHANGED <<options, out, client, feed, keyPromise, listening, decrypts, heard,
                   encrypted, loads, emitted, db, task, budget>>

\* lines 141-160: client.setPassword() settles
SetPasswordSettled(ok) ==
    /\ setupPc = "setPassword"
    /\ IF ~ok
       THEN SetupThrow /\ UNCHANGED encrypted
       ELSE /\ encrypted' = TRUE
            /\ IF LoadsEncrypted(options)
               THEN /\ setupPc' = "loadEncrypted"
                    /\ UNCHANGED <<setupErr, replicateFrom, remote, syncs>>
               ELSE /\ StartReplication("encrypted")
                    /\ UNCHANGED setupErr
    /\ UNCHANGED <<options, out, client, feed, keyPromise, listening, decrypts, heard,
                   loads, emitted, db, task, budget>>

\* lines 152-160: client.loadEncrypted() settles
LoadEncryptedSettled(ok) ==
    /\ setupPc = "loadEncrypted"
    /\ IF ~ok
       THEN SetupThrow /\ UNCHANGED loads
       ELSE /\ loads' = loads + 1
            /\ StartReplication("encrypted")
            /\ UNCHANGED setupErr
    /\ UNCHANGED <<options, out, client, feed, keyPromise, listening, decrypts, heard,
                   encrypted, emitted, db, task, budget>>

\* the lifecycle events of the sync session and the signals their handlers
\* emit, lines 172-189
SyncEvents == {"change", "paused", "active", "denied", "complete", "error"}

SyncSignal(kind) ==
    CASE kind = "change" -> "sync.change"
      [] kind = "paused" -> "sync.paused"
      [] kind = "active" -> "sync.active"
      [] kind = "denied" -> "sync.denied"
      [] kind = "complete" -> "sync.complete"
      [] kind = "error" -> "sync.error"

SyncEvent_fatal(kind) ==
    /\ syncs # <<>>
    /\ emitted' = SyncSignal(kind)
    /\ client' = IF kind = "error" THEN "unset" ELSE client
    /\ UNCHANGED <<options, out, feed, setupPc, setupErr, keyPromise, listening,
                   decrypts, heard, encrypted, loads, replicateFrom, remote, syncs, db, task,
                   budget>>

\* a started sync session reports an event: its handler emits the signal
SyncEvent(kind) ==
    /\ syncs # <<>>
    /\ emitted' = SyncSignal(kind)
    /\ UNCHANGED <<options, out, client, feed, setupPc, setupErr, keyPromise,
                   listening, decrypts, heard, encrypted, loads, replicateFrom, remote, syncs,
                   db, task, budget>>

-----------------------------------------------------------------------------
(* The CRUD facade.  A task is one caller's call: its arguments, its local  *)
(* variables, the await it is suspended at (pc) and its outcome.            *)

NoReq == [selector |-> NoFields, limit |-> Undef, skip |-> Undef]
NoEnv == [total |-> 0, limit |-> Undef, skip |-> 0]

IdleTask ==
    [op |-> "none", pc |-> "idle", id |-> NullId, data |-> NoDoc, req |-> NoReq,
     env |-> NoEnv, paged |-> FALSE, cur |-> NoDoc, doc |-> NoDoc, list |-> <<>>,
     err |-> "none", carried |-> 0, method |-> "none", items |-> <<>>]

\* the arguments of a call; carried remembers the _rev the caller's document
\* had when the call was made (line 325 overwrites it)
Call(op, i, data) ==
    [IdleTask EXCEPT !.op = op, !.id = i, !.data = data, !.carried = data.rev]

\* a caller makes a call
Begin(p) ==
    /\ task[p].pc = "idle"
    /\ budget > 0
    /\ budget' = budget - 1

Suspend(p, t, at) == task' = [task EXCEPT ![p] = [t EXCEPT !.pc = at]]

\* the call of slot s as item k of its caller's fan-out sees it
ItemOf(p, k, s, t) == IF Sub(p, k) = s THEN t ELSE task[Sub(p, k)]

\* Promise.all over the per-item calls of caller p, when the call of slot s
\* settles as t: the first rejection rejects the aggregate with its error,
\* the last fulfilment fulfils it with the results in the order of the items
Aggregate_anyFulfilled(p, s, t) ==
    IF t.pc = "failed" THEN [task[p] EXCEPT !.pc = "failed", !.err = t.err]
    ELSE [task[p] EXCEPT !.pc = "done", !.list = <<t.doc>>]

Aggregate(p, s, t) ==
    LET n == Len(task[p].items)
    IN IF t.pc = "failed" THEN [task[p] EXCEPT !.pc = "failed", !.err = t.err]
       ELSE IF \A k \in 1..n : ItemOf(p, k, s, t).pc = "done"
       THEN [task[p] EXCEPT !.pc = "done",
                            !.list = [k \in 1..n |-> ItemOf(p, k, s, t).doc]]
       ELSE task[p]

\* the call of slot s settles as t.  A per-item call settles into the
\* aggregate its caller awaits; once the caller has taken the aggregate's
\* outcome the per-item outcome goes nowhere
Settle(s, t) ==
    task' = IF ~IsSub(s) THEN [task EXCEPT ![s] = t]
            ELSE IF task[Parent(s)].pc = "all"
            THEN [task EXCEPT ![s] = t, ![Parent(s)] = Aggregate(Parent(s), s, t)]
            ELSE IF task[Parent(s)].items = <<>>
            THEN [task EXCEPT ![s] = IdleTask]
            ELSE [task EXCEPT ![s] = t]

Throw(p, t, e) == Settle(p, [t EXCEPT !.pc = "failed", !.err = e])
Finish(p, t) == Settle(p, [t EXCEPT !.pc = "done"])

\* $ready(): passes when this.client is set; otherwise it builds the error,
\* logs it through this.out (unassigned before setup: a TypeError) and throws
ready == client # "unset"

readyError == IF out THEN "NotInitializedError" ELSE "TypeError"

\* an operation whose first lines are `await this.$ready()` and then a store call
Gate(p, t, at) ==
    IF ready THEN Suspend(p, t, at) ELSE Throw(p, t, readyError)

\* $get(id) from its store call on: the document or NotFound
GetSettled(p, i) ==
    LET r == StoreGet(db, i)
    IN IF r.found
       THEN Finish(p, [task[p] EXCEPT !.doc = r.doc])
       ELSE Throw(p, task[p], "NotFoundError")

\* filterParams(params): the directives, the selector and the pagination
filterParams(params) ==
    [filters |-> [limit |-> params.limit, skip |-> params.skip],
     query |-> params.selector,
     paginate |-> IF params.paginate = "false" THEN PaginateFalse ELSE options.paginate]

\* lines 224-229: the limit handed to the store
FindLimit(limit, paginate) ==
    IF paginate.kind = "false" THEN Undef
    ELSE LET l == IF limit # Undef /\ limit # 0 THEN limit ELSE paginate.default
         IN IF l # Undef /\ paginate.max # Undef /\ l > paginate.max
            THEN paginate.max ELSE l

\* lines 231-233
FindSkip(skip) == IF skip # Undef /\ skip # 0 THEN skip ELSE Undef

\* $find(params), lines 217-243
FindStart(p, params) ==
    /\ Begin(p)
    /\ LET fp == filterParams(params)
           t == [IdleTask EXCEPT
                   !.op = "find",
                   !.req = [selector |-> fp.query,
                            limit |-> FindLimit(fp.filters.limit, fp.paginate),
                            skip |-> FindSkip(fp.filters.skip)],
                   !.env = [total |-> 0, limit |-> fp.filters.limit,
                            skip |-> IF fp.filters.skip # Undef THEN fp.filters.skip ELSE 0],
                   !.paged = (fp.paginate.kind # "false")]
       IN Gate(p, t, "find")
    /\ UNCHANGED <<setupVars, db>>

\* lines 243-255: client.find() resolves
FindDone(p) ==
    /\ task[p].pc = "find"
    /\ Finish(p, [task[p] EXCEPT !.list = filterDocs(StoreFind(db, task[p].req))])
    /\ UNCHANGED <<setupVars, db, budget>>

\* $get(id), lines 267-271
GetStart(p, i) ==
    /\ Begin(p)
    /\ Gate(p, Call("get", i, NoDoc), "get")
    /\ UNCHANGED <<setupVars, db>>

\* lines 271-278
GetDone(p) ==
    /\ task[p].pc = "get"
    /\ GetSettled(p, task[p].id)
    /\ UNCHANGED <<setupVars, db, budget>>

\* $put(data), lines 284-291 (a single document)
PutStart(p, data) ==
    /\ Begin(p)
    /\ Gate(p, Call("put", data.id, data), "put")
    /\ UNCHANGED <<setupVars, db>>

\* lines 291-297: client.put() settles; then $get(result.id)
PutDone(p) ==
    /\ task[p].pc = "put"
    /\ IF WriteCheck(db, task[p].data) = "ok"
       THEN /\ db' = StorePut(db, task[p].data)
            /\ Suspend(p, task[p], "put_get")
       ELSE /\ Throw(p, task[p], "PutFailed")
            /\ UNCHANGED db
    /\ UNCHANGED <<setupVars, budget>>

PutGetDone(p) ==
    /\ task[p].pc = "put_get"
    /\ GetSettled(p, task[p].id)
    /\ UNCHANGED <<setupVars, db, budget>>

\* $create(data), lines 303-310 (a single document)
CreateStart(p, data) ==
    /\ Begin(p)
    /\ Gate(p, Call("create", data.id, data), "post")
    /\ UNCHANGED <<setupVars, db>>

\* lines 310-316: client.post() settles (the store assigns an unused id to a
\* document that has none); then $get(result.id)
PostDone(p) ==
    /\ task[p].pc = "post"
    /\ IF task[p].data.id = NullId
       THEN \E i \in Ids :
              /\ db[i].rev = 0
              /\ ~startsWithUnderscore(i)
              /\ db' = StorePut(db, [task[p].data EXCEPT !.id = i])
              /\ Suspend(p, [task[p] EXCEPT !.id = i], "post_get")
       ELSE IF WriteCheck(db, task[p].data) = "ok"
       THEN /\ db' = StorePut(db, task[p].data)
            /\ Suspend(p, task[p], "post_get")
       ELSE /\ Throw(p, task[p], "CreateFailed")
            /\ UNCHANGED db
    /\ UNCHANGED <<setupVars, budget>>

PostGetDone(p) ==
    /\ task[p].pc = "post_get"
    /\ GetSettled(p, task[p].id)
    /\ UNCHANGED <<setupVars, db, budget>>

\* the body of $update(id, data) up to its first store call, lines 320-324
UpdateEnter(p, t) ==
    IF ~ready THEN Throw(p, t, readyError)
    ELSE IF t.id = NullId THEN Throw(p, t, "NotFoundError")
    ELSE Suspend(p, t, "upd_get")

\* $update(id, data)
UpdateStart(p, i, data) ==
    /\ Begin(p)
    /\ UpdateEnter(p, Call("update", i, data))
    /\ UNCHANGED <<setupVars, db>>

\* lines 324-326: $get(id) settles; data._rev = current._rev; client.put(data)
UpdateGetDone(p) ==
    /\ task[p].pc = "upd_get"
    /\ LET r == StoreGet(db, task[p].id)
       IN IF r.found
          THEN Suspend(p, [task[p] EXCEPT !.cur = r.doc, !.data.rev = r.doc.rev], "upd_put")
          ELSE Throw(p, task[p], "NotFoundError")
    /\ UNCHANGED <<setupVars, db, budget>>

\* lines 326-327: client.put(data) settles; then $get(data._id)
UpdatePutDone(p) ==
    /\ task[p].pc = "upd_put"
    /\ LET c == WriteCheck(db, task[p].data)
       IN IF c = "ok"
          THEN /\ db' = StorePut(db, task[p].data)
               /\ Suspend(p, task[p], "upd_reget")
          ELSE /\ Throw(p, task[p],
                        IF c = "conflict" THEN "WriteConflictError" ELSE "MissingIdError")
               /\ UNCHANGED db
    /\ UNCHANGED <<setupVars, budget>>

UpdateRegetDone(p) ==
    /\ task[p].pc = "upd_reget"
    /\ GetSettled(p, task[p].data.id)
    /\ UNCHANGED <<setupVars, db, budget>>

\* isMulti(id, params), lines 59-62
isMulti(i, selector) == i = NullId /\ selector # NoFields

\* merge(old_data, data) of line 339: old_data is the promise $get returned
\* (it is not awaited), which has no fields of its own
merge(old, data) ==
    [f \in Fields |-> IF data[f] # Absent THEN data[f] ELSE old[f]]

\* $patch(id, data, params), lines 333-340 (a single id)
PatchStart(p, i, data, selector) ==
    /\ Begin(p)
    /\ ~isMulti(i, selector)
    /\ IF ~ready THEN Throw(p, Call("patch", i, data), readyError)
       ELSE UpdateEnter(p, Call("patch", i,
                [data EXCEPT !.fields = merge(NoFields, data.fields)]))
    /\ UNCHANGED <<setupVars, db>>

\* allowsMulti(method): options.multi names the method
allowsMulti(method) == method \in options.multi

\* $remove(id, params), lines 346-352 (a single id)
RemoveStart(p, i) ==
    /\ Begin(p)
    /\ ~(i = NullId /\ allowsMulti("remove"))
    /\ Gate(p, Call("remove", i, NoDoc), "rm_get")
    /\ UNCHANGED <<setupVars, db>>

\* lines 352-353: $get(id) settles; client.remove(doc)
RemoveGetDone(p) ==
    /\ task[p].pc = "rm_get"
    /\ LET r == StoreGet(db, task[p].id)
       IN IF r.found
          THEN Suspend(p, [task[p] EXCEPT !.cur = r.doc], "rm_rm")
          ELSE Throw(p, task[p], "NotFoundError")
    /\ UNCHANGED <<setupVars, db, budget>>

\* lines 353-354: client.remove(doc) settles; the document is returned
RemoveDone(p) ==
    /\ task[p].pc = "rm_rm"
    /\ IF WriteCheck(db, task[p].cur) = "ok"
       THEN /\ db' = StoreRemove(db, task[p].cur)
            /\ Finish(p, [task[p] EXCEPT !.doc = task[p].cur])
       ELSE /\ Throw(p, task[p], "WriteConflictError")
            /\ UNCHANGED db
    /\ UNCHANGED <<setupVars, budget>>

\* a per-item call of a fan-out as far as its first store call: $create or
\* $put of one document of an array (lines 287, 306), or this[method](id) of
\* line 362, which passes the id alone: the per-item $patch gets no data, so
\* that its merge (line 339) has nothing to merge.  The caller has passed the
\* gate, and this.client is never unset
ItemCall(method, d) ==
    CASE method = "create" -> [Call("create", d.id, d) EXCEPT !.pc = "post"]
      [] method = "put" -> [Call("put", d.id, d) EXCEPT !.pc = "put"]
      [] method = "remove" -> [Call("remove", d.id, NoDoc) EXCEPT !.pc = "rm_get"]
      [] method = "patch" ->
            [Call("patch", d.id, [NoDoc EXCEPT !.fields = merge(NoFields, NoFields)])
                EXCEPT !.pc = "upd_get"]

\* Promise.all(docs.map(...)) of lines 287, 306 and 362: the per-item calls
\* are all started, and the caller awaits the aggregate
FanOut(p, t, docs) ==
    /\ \A k \in 1..MaxItems : task[Sub(p, k)].pc = "idle"
    /\ IF docs = <<>>
       THEN Finish(p, [t EXCEPT !.list = <<>>])
       ELSE task' = [s \in Slots |->
                       IF s = p THEN [t EXCEPT !.pc = "all", !.items = docs]
                       ELSE IF \E k \in 1..Len(docs) : s = Sub(p, k)
                       THEN ItemCall(t.method, docs[s - Sub(p, 0)])
                       ELSE task[s]]

MultiEnter_paginated(p, op, data, params) ==
    LET fp == filterParams(params)
        t == [Call(op, NullId, data) EXCEPT
                !.method = op,
                !.req = [selector |-> fp.query,
                         limit |-> FindLimit(fp.filters.limit, fp.paginate),
                         skip |-> FindSkip(fp.filters.skip)]]
    IN Gate(p, t, "multi_find")

\* $multi(method, params) as far as the store call of its $find, lines 357-361
MultiEnter(p, op, data, params) ==
    LET fp == filterParams([params EXCEPT !.paginate = "false"])
        t == [Call(op, NullId, data) EXCEPT
                !.method = op,
                !.req = [selector |-> fp.query,
                         limit |-> FindLimit(fp.filters.limit, fp.paginate),
                         skip |-> FindSkip(fp.filters.skip)]]
    IN Gate(p, t, "multi_find")

\* $remove(null, params) with multi allowed for remove, lines 346-350
RemoveManyStart(p, params) ==
    /\ Begin(p)
    /\ allowsMulti("remove")
    /\ MultiEnter(p, "remove", NoDoc, params)
    /\ UNCHANGED <<setupVars, db>>

\* $patch(null, data, params) with a non-empty query, lines 333-337
PatchManyStart(p, data, params) ==
    /\ Begin(p)
    /\ isMulti(NullId, params.selector)
    /\ MultiEnter(p, "patch", data, params)
    /\ UNCHANGED <<setupVars, db>>

\* lines 361-362: the $find of $multi resolves; the fan-out over its items
MultiFindDone(p) ==
    /\ task[p].pc = "multi_find"
    /\ FanOut(p, task[p], filterDocs(StoreFind(db, task[p].req)))
    /\ UNCHANGED <<setupVars, db, budget>>

\* $create(data) with an array, lines 303-310: the fan-out when multi is
\* allowed for create, otherwise client.post(array)
CreateManyStart(p, docs) ==
    /\ Begin(p)
    /\ LET t == [Call("create", NullId, NoDoc) EXCEPT !.method = "create"]
       IN IF ~ready THEN Throw(p, t, readyError)
          ELSE IF allowsMulti("create") THEN FanOut(p, t, docs)
          ELSE Suspend(p, t, "post_array")
    /\ UNCHANGED <<setupVars, db>>

\* lines 310-315: client.post(array) is refused (not a document)
PostArrayDone(p) ==
    /\ task[p].pc = "post_array"
    /\ Throw(p, task[p], "CreateFailed")
    /\ UNCHANGED <<setupVars, db, budget>>

\* $put(data) with an array, lines 284-291
PutManyStart(p, docs) ==
    /\ Begin(p)
    /\ LET t == [Call("put", NullId, NoDoc) EXCEPT !.method = "put"]
       IN IF ~ready THEN Throw(p, t, readyError)
          ELSE IF allowsMulti("put") THEN FanOut(p, t, docs)
          ELSE Suspend(p, t, "put_array")
    /\ UNCHANGED <<setupVars, db>>

\* lines 291-296: client.put(array) is refused (not a document)
PutArrayDone(p) ==
    /\ task[p].pc = "put_array"
    /\ Throw(p, task[p], "PutFailed")
    /\ UNCHANGED <<setupVars, db, budget>>

\* the caller takes the outcome of its call; per-item calls still in flight
\* stay in flight
Return(p) ==
    /\ task[p].pc \in {"done", "failed"}
    /\ task' = [s \in Slots |->
                 IF s = p \/ ( /\ IsSub(s) /\ Parent(s) = p
                               /\ task[s].pc \in {"done", "failed"} )
                 THEN IdleTask ELSE task[s]]
    /\ UNCHANGED <<setupVars, db, budget>>

\* the steps that resume a suspended call
Resume(p) ==
    \/ FindDone(p)
    \/ GetDone(p)
    \/ PutDone(p)
    \/ PutGetDone(p)
    \/ PostDone(p)
    \/ PostGetDone(p)
    \/ UpdateGetDone(p)
    \/ UpdatePutDone(p)
    \/ UpdateRegetDone(p)
    \/ RemoveGetDone(p)
    \/ RemoveDone(p)

-----------------------------------------------------------------------------
(* Initial states *)

Entry(r, n, t) ==
    [rev |-> r, deleted |-> FALSE, fields |-> [f \in Fields |-> IF f = "name" THEN n ELSE t]]
Tombstone(r) == [rev |-> r, deleted |-> TRUE, fields |-> NoFields]

Store(s, a, b) == [i \in Ids |-> IF i = IdSys THEN s ELSE IF i = IdA THEN a ELSE b]

\* what the store may hold when the adapter opens it
OpenedStores ==
    { Store(s, a, b) :
        s \in {NoEntry, Entry(1, Absent, Absent)},
        a \in {NoEntry, Entry(1, "a", Absent)},
        b \in {NoEntry} }

\* what the store may hold once setup has run (the index document exists)
ReadyStores ==
    { Store(Entry(1, Absent, Absent), a, b) :
        a \in {NoEntry, Entry(1, "a", Absent), Entry(2, "a", "b"), Tombstone(2)},
        b \in {NoEntry, Entry(1, "b", "b")} }

SetupConfigs ==
    { Options(e, k, r, EmptyPolicy, NoMulti) :
        e \in Modes, k \in {NoKey, "k1"}, r \in BOOLEAN }

Policies ==
    {EmptyPolicy} \cup { Policy(d, m) : d \in 1..MaxLimit, m \in 1..MaxLimit }

\* the adapter as constructed: setup() has not been called
Fresh(o, d, n) ==
    /\ options = o
    /\ out = FALSE
    /\ client = "unset"
    /\ feed = FALSE
    /\ setupPc = "new"
    /\ setupErr = "none"
    /\ keyPromise = NoPromise
    /\ listening = FALSE
    /\ decrypts = 0
    /\ heard = 0
    /\ encrypted = FALSE
    /\ loads = 0
    /\ replicateFrom = "unset"
    /\ remote = "unset"
    /\ syncs = <<>>
    /\ emitted = "none"
    /\ db = d
    /\ task = [s \in Slots |-> IdleTask]
    /\ budget = n

\* the adapter after setup() resolved with encryption and replication off
\* (the state SetupStart leaves in one step)
Ready(o, d, n) ==
    /\ options = o
    /\ out = TRUE
    /\ client = "open"
    /\ feed = TRUE
    /\ setupPc = "resolved"
    /\ setupErr = "none"
    /\ keyPromise = NoPromise
    /\ listening = FALSE
    /\ decrypts = 0
    /\ heard = 0
    /\ encrypted = FALSE
    /\ loads = 0
    /\ replicateFrom = "client"
    /\ remote = "unset"
    /\ syncs = <<>>
    /\ emitted = "none"
    /\ db = d
    /\ task = [s \in Slots |-> IdleTask]
    /\ budget = n

-----------------------------------------------------------------------------
(* SpecSetup: setup() against the key-delivery event and one caller's CRUD  *)
(* calls.                                                                   *)

DocA == Doc(IdA, 0, [f \in Fields |-> IF f = "name" THEN "b" ELSE Absent])
AllDocs == [selector |-> NoFields, limit |-> Undef, skip |-> Undef, paginate |-> "unset"]

InitSetup == \E o \in SetupConfigs, d \in OpenedStores : Fresh(o, d, MaxOps)

SetupStep ==
    \/ SetupStart
    \/ SetupKeyResumed
    \/ \E ok \in BOOLEAN : SetPasswordSettled(ok)
    \/ \E ok \in BOOLEAN : LoadEncryptedSettled(ok)

NextSetup ==
    \/ SetupStep
    \/ \E k \in {"k2", NoKey} : DecryptEvent(k)
    \/ FindStart(1, AllDocs)
    \/ GetStart(1, IdA)
    \/ CreateStart(1, DocA)
    \/ PutStart(1, DocA)
    \/ UpdateStart(1, IdA, DocA)
    \/ PatchStart(1, IdA, DocA, NoFields)
    \/ RemoveStart(1, IdA)
    \/ Resume(1)
    \/ Return(1)

SpecSetup == InitSetup /\ [][NextSetup]_vars

\* the same, with the scheduling the runtime gives: the continuation of an
\* await on a settled promise runs, and a call to the store settles
SpecSetupFair ==
    /\ InitSetup
    /\ [][NextSetup]_vars
    /\ WF_vars(SetupKeyResumed)
    /\ WF_vars(\E ok \in BOOLEAN : SetPasswordSettled(ok))
    /\ WF_vars(\E ok \in BOOLEAN : LoadEncryptedSettled(ok))

-----------------------------------------------------------------------------
(* SpecCrud: concurrent CRUD calls on a ready adapter.                      *)

CrudData ==
    { Doc(IdA, 1, [f \in Fields |-> IF f = "name" THEN "b" ELSE Absent]),
      Doc(NullId, 0, [f \in Fields |-> IF f = "tag" THEN "a" ELSE Absent]) }

CrudStores == { d \in ReadyStores : d[IdB] = NoEntry }

InitCrud ==
    \E d \in CrudStores :
        Ready(Options("false", NoKey, FALSE, EmptyPolicy, NoMulti), d, MaxOps)

NextCrud ==
    \E p \in Tasks :
        \/ FindStart(p, AllDocs)
        \/ \E i \in {NullId, IdA, IdSys} : GetStart(p, i)
        \/ \E data \in CrudData : CreateStart(p, data)
        \/ \E data \in CrudData : PutStart(p, data)
        \/ \E i \in {NullId, IdA}, data \in CrudData : UpdateStart(p, i, data)
        \/ \E data \in CrudData : PatchStart(p, IdA, data, NoFields)
        \/ \E i \in {IdA, IdSys} : RemoveStart(p, i)
        \/ Resume(p)
        \/ Return(p)

SpecCrud == InitCrud /\ [][NextCrud]_vars

-----------------------------------------------------------------------------
(* SpecUpd: every caller makes one update, concurrently with the others.    *)

UpdIds == {IdA, IdB}
UpdData ==
    { Doc(i, r, [f \in Fields |-> IF f = "name" THEN n ELSE Absent]) :
        i \in UpdIds, r \in {0, 1}, n \in Vals }

InitUpd ==
    \E d \in ReadyStores :
        Ready(Options("false", NoKey, FALSE, EmptyPolicy, NoMulti), d, NumTasks)

NextUpd ==
    \E p \in Tasks :
        \/ \E i \in UpdIds, data \in UpdData : UpdateStart(p, i, data)
        \/ UpdateGetDone(p)
        \/ UpdatePutDone(p)
        \/ UpdateRegetDone(p)

SpecUpd == InitUpd /\ [][NextUpd]_vars

-----------------------------------------------------------------------------
(* SpecFind: one caller's finds under every pagination policy.              *)

FindStores ==
    { Store(s, a, b) :
        s \in {Entry(1, Absent, Absent), Entry(1, "a", Absent)},
        a \in {NoEntry, Entry(1, "a", Absent), Entry(2, "b", "b")},
        b \in {NoEntry, Entry(1, "a", "b")} }

FindParams ==
    { [selector |-> [f \in Fields |-> IF f = "name" THEN n ELSE Absent],
       limit |-> l, skip |-> k, paginate |-> pg] :
        n \in {Absent, "a"}, l \in {Undef} \cup 0..(MaxLimit + 1),
        k \in {Undef, 0, 1}, pg \in {"unset", "false"} }

InitFind ==
    \E pol \in Policies, d \in FindStores :
        Ready(Options("false", NoKey, FALSE, pol, NoMulti), d, MaxOps)

NextFind ==
    \/ \E params \in FindParams : FindStart(1, params)
    \/ FindDone(1)
    \/ Return(1)

SpecFind == InitFind /\ [][NextFind]_vars

-----------------------------------------------------------------------------
(* SpecMulti: one caller's calls on several documents (arrays of documents  *)
(* to create or put, patch and remove by query), whose per-item calls run   *)
(* concurrently.                                                            *)

ArrayDocs ==
    { Doc(IdA, 0, [f \in Fields |-> IF f = "name" THEN "b" ELSE Absent]),
      Doc(IdB, 0, [f \in Fields |-> IF f = "tag" THEN "a" ELSE Absent]) }

Arrays == { <<x, y>> : x \in ArrayDocs, y \in ArrayDocs }

Partial == Doc(NullId, 0, [f \in Fields |-> IF f = "tag" THEN "a" ELSE Absent])

MultiParams ==
    { [selector |-> [f \in Fields |-> IF f = "name" THEN n ELSE Absent],
       limit |-> l, skip |-> Undef, paginate |-> "unset"] :
        n \in {Absent, "a"}, l \in {Undef, 1} }

MultiStores ==
    { Store(Entry(1, Absent, Absent), a, b) :
        a \in {NoEntry, Entry(1, "a", Absent), Entry(2, "b", "b"), Tombstone(2)},
        b \in {NoEntry, Entry(1, "a", "b")} }

InitMulti ==
    \E d \in MultiStores, m \in {NoMulti, AllMulti} :
        Ready(Options("false", NoKey, FALSE, EmptyPolicy, m), d, MaxOps)

NextMulti ==
    \/ \E params \in MultiParams : RemoveManyStart(1, params)
    \/ \E params \in MultiParams : PatchManyStart(1, Partial, params)
    \/ \E docs \in Arrays : CreateManyStart(1, docs)
    \/ \E docs \in Arrays : PutManyStart(1, docs)
    \/ \E data \in ArrayDocs : PatchStart(1, data.id, data, NoFields)
    \/ MultiFindDone(1)
    \/ PostArrayDone(1)
    \/ PutArrayDone(1)
    \/ \E s \in Slots :
        \/ PostDone(s)
        \/ PostGetDone(s)
        \/ PutDone(s)
        \/ PutGetDone(s)
        \/ UpdateGetDone(s)
        \/ UpdatePutDone(s)
        \/ UpdateRegetDone(s)
        \/ RemoveGetDone(s)
        \/ RemoveDone(s)
    \/ Return(1)

SpecMulti == InitMulti /\ [][NextMulti]_vars

-----------------------------------------------------------------------------
(* SpecSync: setup() with replication configured, the events of the sync    *)
(* session, and one caller reading and updating a document.                 *)

SyncConfigs ==
    { Options(e, k, TRUE, EmptyPolicy, NoMulti) :
        e \in {"false", "remote", "local"}, k \in {NoKey, "k1"} }

InitSync == \E o \in SyncConfigs, d \in OpenedStores : Fresh(o, d, MaxOps)

NextSync ==
    \/ SetupStep
    \/ DecryptEvent("k2")
    \/ \E kind \in SyncEvents : SyncEvent(kind)
    \/ GetStart(1, IdA)
    \/ GetDone(1)
    \/ UpdateStart(1, IdA, DocA)
    \/ UpdateGetDone(1)
    \/ UpdatePutDone(1)
    \/ UpdateRegetDone(1)
    \/ Return(1)

SpecSync == InitSync /\ [][NextSync]_vars

-----------------------------------------------------------------------------
(* Properties *)

SetupInProgress == setupPc \in {"awaitKey", "setPassword", "loadEncrypted"}

\* a call that passed the readiness gate and has a store call outstanding
AtStore(p) == task[p].pc \notin {"idle", "done", "failed"}

Settled(p) == task[p].pc \in {"done", "failed"}

\* C1: while setup() has started and not yet completed (it waits for the key,
\* or derives or loads the encrypted variant), no CRUD call is past the
\* readiness gate with a store call issued.  (Checked under SpecSetup.)
C1_NoCrudDuringSetup ==
    SetupInProgress => \A p \in Tasks : ~AtStore(p)

\* C2: a CRUD call made while setup() has never been called fails at once
\* with NotInitializedError and issues no store call.  (SpecSetup.)
C2_NotInitializedBeforeSetup ==
    setupPc = "new" =>
        \A p \in Tasks :
            task[p].pc # "idle" =>
                task[p].pc = "failed" /\ task[p].err = "NotInitializedError"

\* C3, as claimed: an update whose document carries a revision that is not
\* the store's current revision of that id fails with WriteConflictError and
\* leaves the stored document unchanged.  (SpecCrud.)
C3_StaleCarriedRevisionConflicts ==
    [][\A p \in Tasks :
         ( /\ task[p].op = "update"
           /\ task[p].pc = "upd_put"
           /\ task'[p].pc # "upd_put"
           /\ task[p].data.id = task[p].id
           /\ task[p].carried > 0
           /\ task[p].carried # db[task[p].id].rev )
         => ( /\ task'[p].pc = "failed"
              /\ task'[p].err = "WriteConflictError"
              /\ db' = db )]_vars

\* C3, amended: the revision the document carries is not checked (update
\* replaces it by the revision of the document it has just fetched); the
\* write of update(id, doc) fails with WriteConflictError, leaving the store
\* unchanged, exactly when the fetched revision is no longer the store's
\* current revision of the id, and otherwise stores doc's fields under a new
\* revision.  (SpecCrud.)
C3_FetchedRevisionDecides ==
    [][\A p \in Tasks :
         ( /\ task[p].op = "update"
           /\ task[p].pc = "upd_put"
           /\ task'[p].pc # "upd_put"
           /\ task[p].data.id = task[p].id )
         => IF task[p].cur.rev # db[task[p].id].rev
            THEN /\ task'[p].pc = "failed"
                 /\ task'[p].err = "WriteConflictError"
                 /\ db' = db
            ELSE /\ task'[p].pc = "upd_reget"
                 /\ db' = [db EXCEPT ![task[p].id] =
                             [rev |-> task[p].cur.rev + 1, deleted |-> FALSE,
                              fields |-> task[p].data.fields]]]_vars

\* an update lost the race: the revision it fetched was overwritten before
\* its own write, which failed with WriteConflictError
C3_Witness ==
    \E p \in Tasks :
        /\ task[p].op = "update"
        /\ task[p].pc = "failed"
        /\ task[p].err = "WriteConflictError"
        /\ task[p].data.id = task[p].id
        /\ task[p].cur.rev > 0
        /\ task[p].cur.rev # db[task[p].id].rev

\* two settled updates of the same id that fetched the same revision of it
\* (so the second to write held a stale revision), with no other call made
ConcurrentUpdates(p, q) ==
    /\ p # q
    /\ task[p].op = "update" /\ task[q].op = "update"
    /\ Settled(p) /\ Settled(q)
    /\ task[p].id = task[q].id
    /\ task[p].data.id = task[p].id /\ task[q].data.id = task[q].id
    /\ task[p].cur.rev > 0
    /\ task[p].cur.rev = task[q].cur.rev
    /\ \A o \in Tasks \ {p, q} : task[o].pc = "idle"

\* w's update succeeded and is what the store holds; l's failed as a conflict
Wins(w, l) ==
    /\ task[w].pc = "done"
    /\ task[l].pc = "failed"
    /\ task[l].err = "WriteConflictError"
    /\ db[task[w].id] = [rev |-> task[w].cur.rev + 1, deleted |-> FALSE,
                         fields |-> task[w].data.fields]
    /\ task[w].doc = Doc(task[w].id, task[w].cur.rev + 1, task[w].data.fields)

\* C4: of two concurrent updates of one id, one of which holds a stale
\* revision when it writes, exactly one succeeds, the other fails with
\* WriteConflictError, and the store holds the succeeding write.  (SpecUpd.)
C4_ExactlyOneUpdateWins ==
    \A p, q \in Tasks :
        ConcurrentUpdates(p, q) => (Wins(p, q) \/ Wins(q, p))

\* two updates raced on one id: p's write won, q's failed as a conflict
C4_Witness ==
    \E p, q \in Tasks : ConcurrentUpdates(p, q) /\ Wins(p, q)

\* C5: when encryption resolution fails, setup() rejects with an
\* EncryptionError, replication is not started, and every CRUD call made
\* afterwards fails with NotInitializedError.  (SpecSetup.)
C5_FailedSetupNeverReady ==
    [][ /\ setupPc' = "rejected" =>
             (setupErr' = "EncryptionError" /\ syncs' = <<>> /\ remote' = "unset")
        /\ setupPc = "rejected" =>
             \A p \in Tasks :
                 (task[p].pc = "idle" /\ task'[p].pc # "idle") =>
                     (task'[p].pc = "failed" /\ task'[p].err = "NotInitializedError")
      ]_vars

\* C6: with encryption on, no static key and no key-delivery event, setup()
\* has neither resolved nor rejected, the encrypted variant is not derived
\* or loaded and no sync session is started.  (SpecSetup.)
C6_PendingWithoutKey ==
    (EncryptOn(options) /\ ~Truthy(options.encryptionKey) /\ decrypts = 0) =>
        /\ setupPc \in {"new", "awaitKey"}
        /\ ~encrypted
        /\ loads = 0
        /\ syncs = <<>>
        /\ remote = "unset"

\* setup() is suspended on the key-delivery event, which has not fired
C6_Witness ==
    /\ EncryptOn(options) /\ ~Truthy(options.encryptionKey) /\ decrypts = 0
    /\ setupPc = "awaitKey"
    /\ listening
    /\ keyPromise.state = "pending"

\* the handle the modes of the specification select
SpecHandle(o) ==
    IF o.encrypt \in {"remote", "full", "true"} THEN "encrypted" ELSE "client"

\* C7: the handle handed to the sync session is the encrypted variant exactly
\* in the remote-only and full modes, the plain store otherwise, and the
\* session is started once.  (SpecSetup.)
C7_ReplicateFromByMode ==
    /\ \A k \in 1..Len(syncs) : syncs[k] = SpecHandle(options)
    /\ Len(syncs) <= 1
    /\ setupPc = "resolved" => replicateFrom = SpecHandle(options)

NoReserved(docs) == \A k \in 1..Len(docs) : ~startsWithUnderscore(docs[k].id)

\* C8: no document a find returns (as a sequence or as page data) has an id
\* that starts with the reserved prefix.  (SpecFind.)
C8_FindDropsReserved ==
    \A p \in Tasks :
        (task[p].op = "find" /\ task[p].pc = "done") => NoReserved(task[p].list)

\* a find whose store result held a reserved document returned the others
C8_Witness ==
    \E p \in Tasks :
        /\ task[p].op = "find" /\ task[p].pc = "done"
        /\ Len(task[p].list) > 0
        /\ ~NoReserved(StoreFind(db, task[p].req))

\* C9: no call returns a document whose id starts with the reserved prefix,
\* or has written or removed one.  (SpecCrud.)
C9_NoReservedExposed ==
    \A p \in Tasks :
        task[p].pc = "done" =>
            /\ ~startsWithUnderscore(task[p].doc.id)
            /\ NoReserved(task[p].list)

Min(a, b) == IF a < b THEN a ELSE b

\* C10: under a policy {default, max} the limit handed to the store is the
\* requested $limit, or default when none is requested, and at most max.
\* (SpecFind.)
C10_LimitClamped ==
    \A p \in Tasks :
        ( /\ task[p].op = "find"
          /\ task[p].pc \in {"find", "done"}
          /\ task[p].paged
          /\ options.paginate # EmptyPolicy )
        => task[p].req.limit =
             Min(IF task[p].env.limit # Undef THEN task[p].env.limit
                 ELSE options.paginate.default,
                 options.paginate.max)

\* C11: patch(i, partial) of a stored document stores, when its write
\* succeeds, the fields of the document it found with those of partial
\* merged over them (the fields partial does not mention are kept), as
\* update(i, merge(get(i), partial)) does, and its write is not refused for
\* another reason than a conflict.  (SpecCrud.)
C11_PatchKeepsUnmentioned ==
    [][\A p \in Tasks :
         ( /\ task[p].op = "patch"
           /\ task[p].pc = "upd_put"
           /\ task'[p].pc # "upd_put"
           /\ task[p].cur.rev = db[task[p].id].rev )
         => ( /\ task'[p].pc = "upd_reget"
              /\ db' = [db EXCEPT ![task[p].id] =
                          [rev |-> task[p].cur.rev + 1, deleted |-> FALSE,
                           fields |-> merge(task[p].cur.fields,
                                            task[p].data.fields)]] )]_vars

\* a call of caller p that went to $multi with the given method
Multi(p, method) == task[p].op = method /\ task[p].method = method

ItemIds(p) == { task[p].items[k].id : k \in 1..Len(task[p].items) }

\* the documents a non-paginated find with the selector resolves
FoundBy(d, selector) == filterDocs(Collect(d, selector, 1))

\* C12: remove(null) with multi allowed for remove resolves the documents
\* matching the selector with a non-paginated find (a $limit does not
\* apply), removes exactly those (each is left deleted, no other document
\* changes while the removal runs), does not fail, and returns the
\* documents as they were, in the order the find resolved them.  (SpecMulti.)
C12_RemoveManyRemovesMatches ==
    /\ [](\A p \in Tasks :
            (Multi(p, "remove") /\ task[p].pc = "done") =>
                /\ task[p].list = task[p].items
                /\ \A k \in 1..Len(task[p].items) :
                     /\ ~StoreGet(db, task[p].items[k].id).found
                     /\ db[task[p].items[k].id].rev = task[p].items[k].rev + 1)
    /\ [][\A p \in Tasks :
            Multi(p, "remove") =>
                /\ (task[p].pc = "multi_find" /\ task'[p].pc # "multi_find") =>
                     /\ task'[p].items = FoundBy(db, task[p].req.selector)
                     /\ db' = db
                /\ task[p].pc = "all" =>
                     /\ \A i \in Ids \ ItemIds(p) : db'[i] = db[i]
                     /\ task'[p].pc # "failed"]_vars

\* a remove by query has removed two documents and returned them
C12_Witness ==
    \E p \in Tasks :
        /\ Multi(p, "remove") /\ task[p].pc = "done"
        /\ Len(task[p].list) = 2
        /\ task[p].req.selector # NoFields
        /\ \A k \in 1..2 : ~StoreGet(db, task[p].list[k].id).found

\* the per-item call k of caller p's fan-out is awaiting a store call
InFlight(p, k) == task[Sub(p, k)].pc \notin {"idle", "done", "failed"}

Items(p) == 1..Len(task[p].items)

\* C13: the aggregate of a fan-out is fulfilled only when every per-item call
\* is, with the per-item results in the order of the items, whichever
\* completes first; it is rejected by the first per-item call that rejects,
\* with that call's error, which later rejections do not replace; and the
\* rejection leaves the sibling calls as they are, in flight.  (SpecMulti.)
C13_AggregateFailsFast ==
    /\ [](\A p \in Tasks :
            (task[p].items # <<>> /\ task[p].pc = "done") =>
                /\ Len(task[p].list) = Len(task[p].items)
                /\ \A k \in Items(p) :
                     /\ task[Sub(p, k)].pc = "done"
                     /\ task[p].list[k] = task[Sub(p, k)].doc
                     /\ task[p].items[k].id # NullId =>
                            task[p].list[k].id = task[p].items[k].id)
    /\ [][\A p \in Tasks :
            /\ task[p].pc = "all" =>
                 \A k \in Items(p) :
                     IF InFlight(p, k) /\ task'[Sub(p, k)].pc = "failed"
                     THEN /\ task'[p].pc = "failed"
                          /\ task'[p].err = task'[Sub(p, k)].err
                          /\ \A j \in Items(p) \ {k} :
                               task'[Sub(p, j)] = task[Sub(p, j)]
                     ELSE (\A j \in Items(p) : task'[Sub(p, j)].pc # "failed")
                              => task'[p].pc # "failed"
            /\ (task[p].items # <<>> /\ task[p].pc = "failed"
                    /\ task'[p].pc = "failed") =>
                 task'[p].err = task[p].err]_vars

\* the aggregate has been rejected by one item while the write of a sibling
\* is still outstanding at the store, which will accept it
C13_Witness ==
    \E p \in Tasks :
        /\ task[p].items # <<>> /\ task[p].pc = "failed"
        /\ \E k, j \in Items(p) :
             /\ task[Sub(p, k)].pc = "failed"
             /\ task[Sub(p, k)].err = task[p].err
             /\ task[Sub(p, j)].pc = "post"
             /\ WriteCheck(db, task[Sub(p, j)].data) = "ok"

\* C14: a lifecycle event of the sync session changes nothing but the signal
\* emitted, which is the sync.* signal of the event: the store handle, the
\* state and outcome of setup(), the stored documents and every CRUD call in
\* flight are as before.  (SpecSync.)
C14_SyncEventsOnlyEmit ==
    [][emitted' # emitted =>
         /\ emitted' \in { SyncSignal(kind) : kind \in SyncEvents }
         /\ syncs # <<>>
         /\ UNCHANGED <<client, remote, replicateFrom, setupPc, setupErr, db, task>>
         /\ (ready <=> ready')]_vars

\* a sync error was reported while a CRUD call was at the store, after
\* setup() resolved
C14_Witness ==
    /\ emitted = "sync.error"
    /\ setupPc = "resolved"
    /\ client = "open"
    /\ \E p \in Tasks : task[p].pc = "upd_put"

\* C15: setup() opens the store and subscribes its change feed first; the
\* sync session does not exist before setup() resolves, and setup() resolves
\* only with encryption resolution completed (with encryption on, the key
\* resolved and the encrypted variant derived); at that point one session has
\* been started from the resolved handle if options.replicate is set, and
\* none otherwise.  (SpecSetup.)
C15_SetupOrder ==
    /\ setupPc # "new" => (client = "open" /\ feed)
    /\ setupPc # "resolved" => (syncs = <<>> /\ remote = "unset")
    /\ setupPc = "resolved" =>
         /\ EncryptOn(options) => (keyPromise.state = "resolved" /\ encrypted)
         /\ IF options.replicate
            THEN syncs = <<replicateFrom>> /\ remote = "open"
            ELSE syncs = <<>> /\ remote = "unset"

\* setup() resolved after the key arrived by event, and started the session
C15_Witness ==
    /\ setupPc = "resolved"
    /\ EncryptOn(options) /\ ~Truthy(options.encryptionKey)
    /\ decrypts > 0
    /\ encrypted
    /\ options.replicate
    /\ Len(syncs) = 1

\* C16: the revision of an id only grows, a successful write of create or
\* update gives its id a revision greater than the one it had, and the get
\* that ends the call returns the revision the store then holds: the
\* document returned carries a revision the id never had before the write.
\* (SpecCrud.)
C16_FreshRevision ==
    [][ /\ \A i \in Ids :
             /\ db'[i].rev >= db[i].rev
             /\ db'[i] # db[i] => db'[i].rev > db[i].rev
        /\ \A p \in Tasks :
             LET i == IF task'[p].op \in {"update", "patch"} THEN task'[p].data.id ELSE task'[p].id
             IN /\ ( /\ task[p].pc \in {"post", "upd_put"}
                     /\ task'[p].pc \in {"post_get", "upd_reget"} )
                   => db'[i].rev > db[i].rev
                /\ ( /\ task[p].pc \in {"post_get", "upd_reget"}
                     /\ task'[p].pc = "done" )
                   => /\ task'[p].doc.id = i
                      /\ task'[p].doc.rev = db[i].rev
      ]_vars

\* an update of a document at its second revision returned the third
C16_Witness ==
    \E p \in Tasks :
        /\ task[p].op = "update" /\ task[p].pc = "done"
        /\ task[p].cur.rev = 2
        /\ task[p].doc.rev = 3

\* C17: patch(null, partial) with a non-empty selector ends fulfilled, with
\* every document the find resolved holding its previous fields with those
\* of partial merged over them, and returns those patched documents in the
\* order of resolution.  (SpecMulti.)
C17_PatchManyAppliesPartial ==
    \A p \in Tasks :
        (Multi(p, "patch") /\ task[p].pc \in {"done", "failed"}) =>
            /\ task[p].pc = "done"
            /\ Len(task[p].list) = Len(task[p].items)
            /\ \A k \in Items(p) :
                 LET was == task[p].items[k]
                     now == merge(was.fields, task[p].data.fields)
                 IN /\ db[was.id].fields = now
                    /\ task[p].list[k] = Doc(was.id, was.rev + 1, now)

\* C18: once setup() has resolved with encryption on, the persisted
\* encrypted content has been loaded (once) exactly in the modes 'remote',
\* true and 'full', and not in the mode 'local'; while the load is
\* outstanding no sync session exists.  (SpecSetup.)
C18_LoadByMode ==
    /\ setupPc = "loadEncrypted" => syncs = <<>>
    /\ (setupPc = "resolved" /\ EncryptOn(options)) =>
         loads = (IF options.encrypt \in {"remote", "true", "full"} THEN 1 ELSE 0)

\* C19: the envelope of a paginated find has total equal to the number of
\* documents in its data, and skip equal to the $skip handed to the store,
\* or 0 when there is none.  (SpecFind.)
C19_EnvelopeTotal ==
    \A p \in Tasks :
        (task[p].op = "find" /\ task[p].pc = "done" /\ task[p].paged) =>
            /\ task[p].env.total = Len(task[p].list)
            /\ task[p].env.skip =
                 (IF task[p].req.skip # Undef THEN task[p].req.skip ELSE 0)

\* encryption is off, or on with a static key configured
StaticOrOff == ~EncryptOn(options) \/ Truthy(options.encryptionKey)

\* C20: with encryption off, or on with a static key, setup() never
\* subscribes to the 'decrypt' event and its key promise is never pending; a
\* 'decrypt' event changes nothing of the adapter; and setup(), once called,
\* resolves or rejects, whether or not the event ever occurs.
\* (SpecSetupFair.)
C20_StaticKeyNeverWaits ==
    /\ [](StaticOrOff => (~listening /\ keyPromise.state # "pending"))
    /\ [][(StaticOrOff /\ decrypts' # decrypts) =>
             UNCHANGED <<options, out, client, feed, setupPc, setupErr, keyPromise,
                         listening, heard, encrypted, loads, replicateFrom, remote, syncs,
                         emitted, db, task, budget>>]_vars
    /\ (StaticOrOff /\ setupPc # "new") ~> (setupPc \in {"resolved", "rejected"})

\* setup() resolved with the static key, with no 'decrypt' event at all
C20_Witness ==
    /\ EncryptOn(options) /\ Truthy(options.encryptionKey)
    /\ decrypts = 0
    /\ ~listening
    /\ keyPromise = Resolved(options.encryptionKey)
    /\ setupPc = "resolved"

\* C21: once the 'decrypt' listener has run, a further delivery, with a key
\* or with a falsy value, leaves the key promise, the state and outcome of
\* setup(), the encrypted variant, the count of loads, the replication
\* handle and the sync sessions as they are (and everything else of the
\* adapter); the content is loaded and the session started at most once.
\* (SpecSetup.)
C21_OnlyFirstDeliveryCounts ==
    /\ [](loads <= 1 /\ Len(syncs) <= 1)
    /\ [][(heard >= 1 /\ heard' # heard) =>
             UNCHANGED <<options, out, client, feed, setupPc, setupErr, keyPromise,
                         listening, encrypted, loads, replicateFrom, remote, syncs,
                         emitted, db, task, budget>>]_vars

\* the listener ran twice, and setup() resolved with the key it heard
\* first or following it
C21_Witness ==
    /\ heard = 2
    /\ keyPromise.state = "resolved"
    /\ setupPc = "resolved"
    /\ encrypted
    /\ Len(syncs) = 1

====
